---- MODULE Spec2Model ----
(***************************************************************************)
(* A model of pyshacl/extras/js/constraint.py: the SHACL-JS constraint     *)
(* (JSConstraint), the JS executable descriptor (JSExecutable), the        *)
(* JS constraint component with its validator cache, the parameter binder  *)
(* and the bound validator.                                                *)
(*                                                                         *)
(* Each component has its own specification (SpecJS, SpecExe, ...): the    *)
(* variables of the other components stay at their idle values.           *)
(***************************************************************************)
EXTENDS Integers, Sequences, FiniteSets, TLC

VARIABLES
    is_property_shape,   \* shape.is_property_shape of the shape under evaluation
    js_exes,             \* JSConstraint.js_exes: one script behaviour per sh:js declaration
    focus_value_nodes,   \* the focus -> value nodes map handed to JSConstraint.evaluate
    js_ret,              \* what JSConstraint.evaluate returned (returned = FALSE before the call)
    fn_names,            \* set(sg.objects(node, SH_jsFunctionName)) of the source node
    jsLibrary,           \* node -> sg.objects(node, SH_jsLibrary), in enumeration order
    jsLibraryURL,        \* node -> sg.objects(node, SH_jsLibraryURL), in enumeration order
    executable,          \* the outcome of JSExecutable(sg, node)
    parameters,          \* constraint.parameters: the declared parameters, in order
    shape_objects,       \* path -> set(shape.objects(path)): the shape's parameter values
    bound,               \* the outcome of BoundShapeJSValidatorComponent(constraint, shape, validator)
    js_results,          \* value node -> the result table the validator's script returns for it
    bound_ret,           \* what BoundShapeJSValidatorComponent.evaluate returned or raised
    validators,          \* JSConstraintComponent.validators (generic)
    node_validators,     \* JSConstraintComponent.node_validators
    property_validators, \* JSConstraintComponent.property_validators
    validator_cache,     \* JSConstraintComponentValidator.validator_cache: key -> instance
    instances,           \* the JSConstraintComponentValidator objects, by identity
    resolved             \* what the last make_validator_for_shape returned or raised

jsVars == <<js_exes, focus_value_nodes, js_ret>>
exeVars == <<fn_names, jsLibrary, jsLibraryURL, executable>>
bindVars == <<parameters, shape_objects, bound>>
boundVars == <<js_results, bound_ret>>
componentVars == <<validators, node_validators, property_validators>>
resolveVars == <<componentVars, validator_cache, instances, resolved>>

vars == <<is_property_shape, jsVars, exeVars, bindVars, boundVars, resolveVars>>

\* Python's None, and an absent dictionary key read through dict.get(key, None).
None == "None"

(***************************************************************************)
(* Bounds of the model.                                                    *)
(***************************************************************************)
MaxListLen == 3    \* longest list a script returns
MaxExes == 2       \* most sh:js declarations on one shape
MaxLibs == 2       \* most sh:jsLibrary objects of the source node
MaxNested == 1     \* most sh:jsLibrary objects of a library node
MaxParams == 2     \* most parameters a constraint component declares
MaxRows == 2       \* most rows of a result table
MaxInstances == 2  \* most validator objects created in one run

(***************************************************************************)
(* Raw values a script can return (JSExecutable.execute is a black box).   *)
(***************************************************************************)
RBool(b) == [kind |-> "bool", b |-> b]
RStr(s) == [kind |-> "str", s |-> s]
RDict(val, path, msg) == [kind |-> "dict", value |-> val, path |-> path, message |-> msg]
RList(items) == [kind |-> "list", items |-> items]
\* a number, null, undefined, or a list nested in a list: none of the recognised shapes
ROther == [kind |-> "other"]

FocusNodes == {"F", "G"}
ValueNodes == {"bad", "good"}
\* value nodes of one focus node, in the order the loop visits them
ValueSeqs == {<<>>, <<"bad">>, <<"good">>, <<"bad", "good">>, <<"good", "bad">>}

DictResults == {RDict(a, b, c) : a \in {None, "X"}, b \in {None, "P"}, c \in {None, "dm"}}
ScalarResults == {RBool(FALSE), RBool(TRUE), RStr("m"), ROther} \cup DictResults
ListElements ==
    {RBool(FALSE), RBool(TRUE), RStr("m"), ROther,
     RDict("X", "P", "dm"), RDict(None, None, None)}

SeqsUpTo(S, n) == UNION {[1..k -> S] : k \in 0..n}

ListResults == {RList(items) : items \in SeqsUpTo(ListElements, MaxListLen)}
RawResults == ScalarResults \cup ListResults

\* the results used where several calls are combined
FewResults == {RBool(FALSE), RBool(TRUE), RStr("m"), RList(<<RBool(TRUE)>>)}

(***************************************************************************)
(* make_v_result is the engine's report builder: a report is the record of *)
(* the arguments it was built from.                                        *)
(***************************************************************************)
make_v_result(f, value_node, result_path, extra_messages) ==
    [focus |-> f, value_node |-> value_node, result_path |-> result_path,
     extra_messages |-> extra_messages]

\* JSExecutable.execute(data_graph, f, v): the script's answer for value node v
execute(js_exe, f, v) == js_exe[v]

\* lines 175-190: the report, if any, of one element r of a returned list
RECURSIVE evaluate_list(_, _, _, _)
evaluate_list(isprop, f, v, items) ==
    IF items = <<>> THEN <<>>
    ELSE LET r == Head(items)
             rep ==
                 IF r.kind = "bool" /\ ~r.b
                 THEN <<make_v_result(f, v, None, <<>>)>>
                 ELSE IF r.kind = "str"
                 THEN <<make_v_result(f, v, None, <<r.s>>)>>
                 ELSE IF r.kind = "dict"
                 THEN LET val == IF r.value = None THEN v ELSE r.value
                          path == IF ~isprop THEN r.path ELSE None
                          msgs == IF r.message # None THEN <<r.message>> ELSE <<>>
                      IN <<make_v_result(f, val, path, msgs)>>
                 ELSE <<>>
         IN rep \o evaluate_list(isprop, f, v, Tail(items))

\* evaluate_pair with the path of a record taken for property shapes too
evaluate_pair_path_always(isprop, f, v, res) ==
    IF res.kind = "bool" /\ ~res.b
    THEN [failed |-> TRUE, reports |-> <<make_v_result(f, v, None, <<>>)>>]
    ELSE IF res.kind = "str"
    THEN [failed |-> TRUE, reports |-> <<make_v_result(f, v, None, <<res.s>>)>>]
    ELSE IF res.kind = "dict"
    THEN LET val == IF res.value = None THEN v ELSE res.value
             msgs == IF res.message # None THEN <<res.message>> ELSE <<>>
         IN [failed |-> TRUE, reports |-> <<make_v_result(f, val, res.path, msgs)>>]
    ELSE IF res.kind = "list"
    THEN [failed |-> Len(res.items) > 0,
          reports |-> evaluate_list(isprop, f, v, res.items)]
    ELSE [failed |-> FALSE, reports |-> <<>>]

\* lines 151-194: one (focus, value) pair of _evaluate_js_exe
evaluate_pair(isprop, f, v, res) ==
    IF res.kind = "bool" /\ ~res.b
    THEN [failed |-> TRUE, reports |-> <<make_v_result(f, v, None, <<>>)>>]
    ELSE IF res.kind = "str"
    THEN [failed |-> TRUE, reports |-> <<make_v_result(f, v, None, <<res.s>>)>>]
    ELSE IF res.kind = "dict"
    THEN LET val == IF res.value = None THEN v ELSE res.value
             path == IF ~isprop THEN res.path ELSE None
             msgs == IF res.message # None THEN <<res.message>> ELSE <<>>
         IN [failed |-> TRUE, reports |-> <<make_v_result(f, val, path, msgs)>>]
    ELSE IF res.kind = "list"
    THEN \* "for r in res: failed = True": set once per element, whatever the element
         [failed |-> Len(res.items) > 0,
          reports |-> evaluate_list(isprop, f, v, res.items)]
    ELSE [failed |-> FALSE, reports |-> <<>>]

\* the (focus, value) pairs in the order the two loops of line 149-150 visit them
RECURSIVE pairs_of(_)
pairs_of(f_v) ==
    IF f_v = <<>> THEN <<>>
    ELSE [i \in 1..Len(Head(f_v).value_nodes) |->
             [f |-> Head(f_v).f, v |-> Head(f_v).value_nodes[i]]]
         \o pairs_of(Tail(f_v))

RECURSIVE evaluate_pairs(_, _, _)
evaluate_pairs(isprop, pairs, js_exe) ==
    IF pairs = <<>> THEN [non_conformant |-> FALSE, reports |-> <<>>]
    ELSE LET p == Head(pairs)
             one == evaluate_pair(isprop, p.f, p.v, execute(js_exe, p.f, p.v))
             rest == evaluate_pairs(isprop, Tail(pairs), js_exe)
         IN [non_conformant |-> one.failed \/ rest.non_conformant,
             reports |-> one.reports \o rest.reports]

\* JSConstraint._evaluate_js_exe
evaluate_js_exe(isprop, f_v_dict, js_exe) ==
    evaluate_pairs(isprop, pairs_of(f_v_dict), js_exe)

\* the loop of JSConstraint.evaluate over self.js_exes
RECURSIVE evaluate_exes(_, _, _)
evaluate_exes(isprop, f_v, exes) ==
    IF exes = <<>> THEN [non_conformant |-> FALSE, reports |-> <<>>]
    ELSE LET one == evaluate_js_exe(isprop, f_v, Head(exes))
             rest == evaluate_exes(isprop, f_v, Tail(exes))
         IN [non_conformant |-> one.non_conformant \/ rest.non_conformant,
             reports |-> one.reports \o rest.reports]

(***************************************************************************)
(* RDF terms of the shapes graph: a Literal (with its datatype) or a node. *)
(* str(term) is the lexical form.                                           *)
(***************************************************************************)
Literal(lex, dt) == [term |-> "Literal", lex |-> lex, dt |-> dt]
Node(lex) == [term |-> "Node", lex |-> lex, dt |-> None]
isLiteral(t) == t.term = "Literal"
str(t) == t.lex

\* exceptions
ConstraintLoadError == "ConstraintLoadError"
ReportableRuntimeError == "ReportableRuntimeError"

LibraryNodes == {"L1", "L2", "L3"}

\* a JSExecutable that was not built (yet, or because the constructor raised)
NoExecutable(raised) ==
    [raised |-> raised, fn_name |-> None, libraries |-> <<>>, seen_library_defs |-> <<>>]

Contains(seq, x) == \E i \in 1..Len(seq) : seq[i] = x

\* lines 62-68 and 82-88: the URLs of one library, or the error of a URL that is no Literal
library_urls(urls) ==
    IF \E i \in 1..Len(urls) : ~isLiteral(urls[i])
    THEN [raised |-> ConstraintLoadError, urls |-> <<>>]
    ELSE [raised |-> None, urls |-> [i \in 1..Len(urls) |-> str(urls[i])]]

\* lines 51-68 and 71-88: one library object libn met by either loop: skipped when seen,
\* an error when a Literal, else marked seen and its URLs stored (when it has any)
visit_library(acc, libn, sg_urls) ==
    IF Contains(acc.seen_library_defs, libn) THEN [acc EXCEPT !.visited = FALSE]
    ELSE IF isLiteral(libn) THEN [acc EXCEPT !.raised = ConstraintLoadError]
    ELSE LET us == library_urls(sg_urls[str(libn)])
             seen == Append(acc.seen_library_defs, libn)
         IN IF us.raised # None
            THEN [acc EXCEPT !.raised = us.raised, !.seen_library_defs = seen]
            ELSE [acc EXCEPT
                    !.visited = TRUE,
                    !.seen_library_defs = seen,
                    !.libraries =
                        IF Len(us.urls) > 0
                        THEN Append(@, [node |-> str(libn), urls |-> us.urls])
                        ELSE @]

\* lines 70-88: the inner loop over the libraries a library declares
RECURSIVE nested_libraries(_, _, _)
nested_libraries(acc, library_defs2, sg_urls) ==
    IF acc.raised # None \/ library_defs2 = <<>> THEN acc
    ELSE nested_libraries(visit_library(acc, Head(library_defs2), sg_urls),
                          Tail(library_defs2), sg_urls)

\* lines 50-88: the outer loop over the libraries the source node declares; the inner
\* loop runs only for a library this loop did not skip
RECURSIVE direct_libraries(_, _, _, _)
direct_libraries(acc, library_defs, sg_libs, sg_urls) ==
    IF acc.raised # None \/ library_defs = <<>> THEN acc
    ELSE LET libn == Head(library_defs)
             one == visit_library(acc, libn, sg_urls)
             two == IF one.raised = None /\ one.visited
                    THEN nested_libraries(one, sg_libs[str(libn)], sg_urls)
                    ELSE one
         IN direct_libraries(two, Tail(library_defs), sg_libs, sg_urls)

\* lines 27-46: the function name, or the error raised
function_name(names) ==
    IF Cardinality(names) < 1 THEN [raised |-> ConstraintLoadError, fn_name |-> None]
    ELSE IF Cardinality(names) > 1 THEN [raised |-> ConstraintLoadError, fn_name |-> None]
    ELSE LET fn_name == CHOOSE t \in names : TRUE
         IN IF ~isLiteral(fn_name)
            THEN [raised |-> ConstraintLoadError, fn_name |-> None]
            ELSE [raised |-> None, fn_name |-> str(fn_name)]

\* JSExecutable.__init__(sg, node)
JSExecutable(names, sg_libs, sg_urls) ==
    LET fn == function_name(names)
        libs == direct_libraries(
                    [raised |-> None, visited |-> FALSE,
                     seen_library_defs |-> <<>>, libraries |-> <<>>],
                    sg_libs["S"], sg_libs, sg_urls)
    IN IF fn.raised # None THEN NoExecutable(fn.raised)
       ELSE IF libs.raised # None THEN NoExecutable(libs.raised)
       ELSE [raised |-> None, fn_name |-> fn.fn_name, libraries |-> libs.libraries,
             seen_library_defs |-> libs.seen_library_defs]

(***************************************************************************)
(* BoundShapeJSValidatorComponent.bind_params.                             *)
(***************************************************************************)
invalid_parameter_names == {"this", "shapesGraph", "currentShape", "path", "PATH", "value"}

\* a dict: a function whose domain is the set of keys
EmptyDict == [k \in {} |-> None]
DictPut(d, k, v) == [x \in DOMAIN d \cup {k} |-> IF x = k THEN v ELSE d[x]]

\* the component before bind_params ran (line 213), or after it raised
Unbound(raised) == [built |-> FALSE, raised |-> raised, param_bind_map |-> EmptyDict]

\* bind_params with the reserved names looked at only for a parameter that has a value
RECURSIVE bind_params_reserved_late(_, _, _)
bind_params_reserved_late(bind_map, params, shape) ==
    IF params = <<>>
    THEN {[built |-> TRUE, raised |-> None, param_bind_map |-> bind_map]}
    ELSE LET p == Head(params)
             name == p.localname
             shape_params == shape[p.path]
         IN IF shape_params = {}
            THEN IF ~p.optional THEN {Unbound(ReportableRuntimeError)}
                 ELSE bind_params_reserved_late(bind_map, Tail(params), shape)
            ELSE IF name \in invalid_parameter_names
            THEN {Unbound(ReportableRuntimeError)}
            ELSE UNION {bind_params_reserved_late(DictPut(bind_map, name, v), Tail(params), shape) :
                          v \in shape_params}

\* lines 218-236: every outcome of the loop from parameter list params on, bind_map being
\* what is bound so far; next(iter(shape_params)) takes any one of the values
RECURSIVE bind_params(_, _, _)
bind_params(bind_map, params, shape) ==
    IF params = <<>>
    THEN {[built |-> TRUE, raised |-> None, param_bind_map |-> bind_map]}
    ELSE LET p == Head(params)
             name == p.localname
             shape_params == shape[p.path]
         IN IF name \in invalid_parameter_names
            THEN {Unbound(ReportableRuntimeError)}
            ELSE IF shape_params = {}
            THEN IF ~p.optional THEN {Unbound(ReportableRuntimeError)}
                 ELSE bind_params(bind_map, Tail(params), shape)
            ELSE UNION {bind_params(DictPut(bind_map, name, v), Tail(params), shape) :
                          v \in shape_params}

(***************************************************************************)
(* JSConstraintComponentValidator.validate and                             *)
(* BoundShapeJSValidatorComponent.evaluate.                                *)
(***************************************************************************)
TypeError == "TypeError"
KeyError == "KeyError"

\* a row of a result table: None is a column the row does not have (r[...] raises KeyError)
Row(this, path, value, failure) ==
    [this |-> this, path |-> path, value |-> value, failure |-> failure]

\* a result the script returned nothing for ("not results")
NoResults == [bindings |-> <<>>, absent |-> TRUE]
ResultTable(rows) == [bindings |-> rows, absent |-> FALSE]

\* Python truth of a column value: None and the empty literal are false
Truthy(x) == x \notin {None, ""}

\* the violations validate returns, and what it returns instead of a set
ViolationTrue == [kind |-> "True", t |-> None, p |-> None, v |-> None]
ViolationTuple(t, p, v) == [kind |-> "tuple", t |-> t, p |-> p, v |-> v]

\* lines 385-409: the violation, if any, of one row
row_violations(r) ==
    IF Truthy(r.path) \/ Truthy(r.value) \/ Truthy(r.this)
    THEN {ViolationTuple(r.this, r.path, r.value)}
    ELSE IF r.failure # None THEN {ViolationTrue} ELSE {}

\* what validate hands back: returned is "None" (the loop never ran and the function fell
\* off its end), "list" (return [], line 383) or "set" (return violations, line 410)
Validated(raised, returned, violations, calls) ==
    [raised |-> raised, returned |-> returned, violations |-> violations, calls |-> calls]

\* JSConstraintComponentValidator.validate: both return statements are inside the
\* "for v in value_nodes" loop, so the first value node visited ends the call
validate(focus, value_nodes, results, param_bind_vals) ==
    LET bind_vals == param_bind_vals
    IN IF value_nodes = <<>> THEN Validated(None, "None", {}, <<>>)
       ELSE LET v == Head(value_nodes)
            IN IF "maxLength" \notin DOMAIN bind_vals
               THEN Validated(KeyError, "None", {}, <<>>)
               ELSE LET args == <<v, bind_vals["maxLength"]>>
                        res == results[v]
                    IN IF res.absent \/ Len(res.bindings) < 1
                       THEN Validated(None, "list", {}, <<args>>)
                       ELSE Validated(None, "set",
                                UNION {row_violations(res.bindings[i]) :
                                          i \in 1..Len(res.bindings)},
                                <<args>>)

\* all the orders in which a set can be iterated
Orders(S) == {q \in [1..Cardinality(S) -> S] : \A x \in S : \E i \in 1..Cardinality(S) : q[i] = x}

\* lines 280-289: the report of one violation
violation_report(isprop, f, v) ==
    LET result_val == IF ~isprop THEN f ELSE None
    IN IF v.kind = "True"
       THEN make_v_result(f, result_val, None, None)
       ELSE IF v.kind = "tuple"
       THEN make_v_result(IF Truthy(v.t) THEN v.t ELSE f,
                          IF v.v = None THEN result_val ELSE v.v, v.p, None)
       ELSE make_v_result(f, v, None, None)

\* what evaluate returned or raised, with the validate calls it made
Evaluated(raised, non_conformant, reports, validated) ==
    [returned |-> TRUE, raised |-> raised,
     conformant |-> ~non_conformant, reports |-> reports, validated |-> validated]

\* lines 267-291: every outcome of the loop over the focus nodes from f_v on
RECURSIVE bound_evaluate(_, _, _, _, _, _, _)
bound_evaluate(isprop, f_v, results, bind_map, non_conformant, reports, validated) ==
    IF f_v = <<>> THEN {Evaluated(None, non_conformant, reports, validated)}
    ELSE LET f == Head(f_v).f
             violations == validate(f, Head(f_v).value_nodes, results, bind_map)
             done == Append(validated, violations)
         IN IF violations.raised # None
            THEN {Evaluated(violations.raised, FALSE, <<>>, done)}
            ELSE IF violations.returned = "None"
            THEN \* "for v in violations" over None
                 {Evaluated(TypeError, FALSE, <<>>, done)}
            ELSE UNION {bound_evaluate(isprop, Tail(f_v), results, bind_map,
                            non_conformant \/ violations.violations # {},
                            reports \o [i \in 1..Len(order) |->
                                           violation_report(isprop, f, order[i])],
                            done) :
                        order \in Orders(violations.violations)}

(***************************************************************************)
(* JSConstraintComponent.make_validator_for_shape and the validator cache. *)
(***************************************************************************)
CannotSelect == "Cannot select a validator to use, according to the rules."
BadMessage == "Validator sh:message must be an RDF Literal of type xsd:string."
BadExecutable == "JSExecutable"
NoNode == Node("None")

\* lines 313-326 with the node-scoped branch taken whatever the kind of the shape
select_validator_node_first(isprop, vals, node_vals, prop_vals) ==
    IF isprop /\ Cardinality(prop_vals) > 0
    THEN {[raised |-> None, validator_node |-> n] : n \in prop_vals}
    ELSE IF Cardinality(node_vals) > 0
    THEN {[raised |-> None, validator_node |-> n] : n \in node_vals}
    ELSE IF Cardinality(vals) > 0
    THEN {[raised |-> None, validator_node |-> n] : n \in vals}
    ELSE {[raised |-> ConstraintLoadError, validator_node |-> NoNode]}

\* lines 313-326: the validator nodes the precedence rule can pick (next(iter(...)) takes
\* any member of the set), or the load error
select_validator(isprop, vals, node_vals, prop_vals) ==
    IF isprop /\ Cardinality(prop_vals) > 0
    THEN {[raised |-> None, validator_node |-> n] : n \in prop_vals}
    ELSE IF ~isprop /\ Cardinality(node_vals) > 0
    THEN {[raised |-> None, validator_node |-> n] : n \in node_vals}
    ELSE IF Cardinality(vals) > 0
    THEN {[raised |-> None, validator_node |-> n] : n \in vals}
    ELSE {[raised |-> ConstraintLoadError, validator_node |-> NoNode]}

\* line 336
cache_key(graph, node) == <<graph, str(node)>>

\* a JSConstraintComponentValidator object as object.__new__ leaves it
NewInstance ==
    [initialised |-> FALSE, messages |-> {}, js_exe |-> NoExecutable(None)]

\* __new__ without the cache lookup: every call makes and caches a new object
validator_new_uncached(cache, objs, key) ==
    LET self == Cardinality(DOMAIN objs) + 1
    IN [found_in_cache |-> FALSE, self |-> self,
        cache |-> [k \in DOMAIN cache \cup {key} |-> IF k = key THEN self ELSE cache[k]],
        objs |-> [o \in DOMAIN objs \cup {self} |-> IF o = self THEN NewInstance ELSE objs[o]]]

\* JSConstraintComponentValidator.__new__
validator_new(cache, objs, key) ==
    IF key \in DOMAIN cache
    THEN [found_in_cache |-> TRUE, self |-> cache[key], cache |-> cache, objs |-> objs]
    ELSE LET self == Cardinality(DOMAIN objs) + 1
         IN [found_in_cache |-> FALSE, self |-> self,
             cache |-> [k \in DOMAIN cache \cup {key} |-> IF k = key THEN self ELSE cache[k]],
             objs |-> [o \in DOMAIN objs \cup {self} |->
                          IF o = self THEN NewInstance ELSE objs[o]]]

NoLibraries == [n \in LibraryNodes \cup {"S"} |-> <<>>]

\* __init__ without the "initialised" guard
validator_init_unguarded(obj, message_nodes, names) ==
    IF \E m \in message_nodes : ~(isLiteral(m) /\ m.dt = "xsd:string")
    THEN [raised |-> ConstraintLoadError, message |-> BadMessage, obj |-> obj]
    ELSE LET exe == JSExecutable(names, NoLibraries, NoLibraries)
         IN IF exe.raised # None
            THEN [raised |-> exe.raised, message |-> BadExecutable,
                  obj |-> [obj EXCEPT !.messages = message_nodes]]
            ELSE [raised |-> None, message |-> None,
                  obj |-> [initialised |-> TRUE, messages |-> message_nodes,
                           js_exe |-> exe]]

\* JSConstraintComponentValidator.__init__ on object obj, the validator node having the
\* sh:message objects message_nodes and the sh:jsFunctionName objects names
validator_init(obj, message_nodes, names) ==
    IF obj.initialised THEN [raised |-> None, message |-> None, obj |-> obj]
    ELSE IF \E m \in message_nodes : ~(isLiteral(m) /\ m.dt = "xsd:string")
    THEN [raised |-> ConstraintLoadError, message |-> BadMessage, obj |-> obj]
    ELSE LET exe == JSExecutable(names, NoLibraries, NoLibraries)
         IN IF exe.raised # None
            THEN [raised |-> exe.raised, message |-> BadExecutable,
                  obj |-> [obj EXCEPT !.messages = message_nodes]]
            ELSE [raised |-> None, message |-> None,
                  obj |-> [initialised |-> TRUE, messages |-> message_nodes,
                           js_exe |-> exe]]

\* what make_validator_for_shape returned (a bound component on validator self) or raised
Resolved(graph, raised, message, validator_node, self, found, bind_map) ==
    [called |-> TRUE, graph |-> graph, raised |-> raised, message |-> message,
     validator_node |-> validator_node, validator |-> self, found_in_cache |-> found,
     param_bind_map |-> bind_map]

(***************************************************************************)
(* The idle values of each component's variables.                          *)
(***************************************************************************)
NotBuilt == [built |-> FALSE, exe |-> NoExecutable(None)]

JsIdle ==
    /\ is_property_shape = FALSE
    /\ js_exes = <<>>
    /\ focus_value_nodes = <<>>
    /\ js_ret = [returned |-> FALSE, conformant |-> TRUE, reports |-> <<>>]

ExeIdle ==
    /\ fn_names = {}
    /\ jsLibrary = <<>>
    /\ jsLibraryURL = <<>>
    /\ executable = NotBuilt

BindIdle ==
    /\ parameters = <<>>
    /\ shape_objects = <<>>
    /\ bound = Unbound(None)

NotEvaluated ==
    [returned |-> FALSE, raised |-> None, conformant |-> TRUE, reports |-> <<>>,
     validated |-> <<>>]

BoundIdle ==
    /\ js_results = <<>>
    /\ bound_ret = NotEvaluated

NotResolved ==
    [called |-> FALSE, graph |-> 0, raised |-> None, message |-> None,
     validator_node |-> NoNode, validator |-> 0, found_in_cache |-> FALSE,
     param_bind_map |-> EmptyDict]

ResolveIdle ==
    /\ validators = {}
    /\ node_validators = {}
    /\ property_validators = {}
    /\ validator_cache = <<>>
    /\ instances = <<>>
    /\ resolved = NotResolved

(***************************************************************************)
(* SpecExe: construction of a JSExecutable from the source node S.         *)
(***************************************************************************)
FunctionNameTerms ==
    {Literal("fn", "xsd:string"), Literal("fn2", "xsd:string"),
     Literal("42", "xsd:integer"), Node("ex:fn")}

\* what a sh:jsLibrary object can be: a library node, or (ill-formed) a Literal
LibraryTerms == {Node(n) : n \in LibraryNodes} \cup {Literal("lib.js", "xsd:string")}

\* sequences of at most n distinct elements of S: a set of objects in some enumeration order
DistinctSeqs(S, n) ==
    {q \in SeqsUpTo(S, n) : \A i, j \in 1..Len(q) : i # j => q[i] # q[j]}

\* the sh:jsLibraryURL objects of a library: none, two Literals, or one that is no Literal
UrlLists(n) ==
    << <<>>,
       <<Literal("a_" \o n, "xsd:anyURI"), Literal("b_" \o n, "xsd:anyURI")>>,
       <<Literal("a_" \o n, "xsd:anyURI"), Node("ex:url")>> >>

\* a plain graph with any function-name objects, or one function name with any libraries
InitExe ==
    /\ JsIdle
    /\ BindIdle
    /\ BoundIdle
    /\ ResolveIdle
    /\ \/ /\ fn_names \in SUBSET FunctionNameTerms
          /\ \E first \in {<<>>, <<Node("L1")>>} :
                jsLibrary = [n \in LibraryNodes \cup {"S"} |->
                                IF n = "S" THEN first ELSE <<>>]
          /\ jsLibraryURL \in [LibraryNodes -> {UrlLists("x")[1], UrlLists("x")[2]}]
       \/ /\ fn_names = {Literal("fn", "xsd:string")}
          /\ \E direct \in DistinctSeqs(LibraryTerms, MaxLibs) :
             \E n1, n2 \in DistinctSeqs(LibraryTerms, MaxNested) :
                jsLibrary = [n \in LibraryNodes \cup {"S"} |->
                                CASE n = "S" -> direct
                                  [] n = "L1" -> n1
                                  [] n = "L2" -> n2
                                  [] OTHER -> <<>>]
          /\ \E u \in [LibraryNodes -> 1..3] :
                jsLibraryURL = [n \in LibraryNodes |-> UrlLists(n)[u[n]]]
    /\ executable = NotBuilt

\* executable = JSExecutable(sg, node)
JSExecutable_init ==
    /\ ~executable.built
    /\ executable' = [built |-> TRUE, exe |-> JSExecutable(fn_names, jsLibrary, jsLibraryURL)]
    /\ UNCHANGED <<is_property_shape, jsVars, fn_names, jsLibrary, jsLibraryURL, bindVars, boundVars, resolveVars>>

NextExe == JSExecutable_init

SpecExe == InitExe /\ [][NextExe]_vars

(***************************************************************************)
(* SpecBind: construction of a bound validator component, which binds the  *)
(* parameters of the constraint component to the values on the shape.      *)
(***************************************************************************)
ParameterNames == {"maxLength", "lang", "value", "path"}
ParameterValues == {"5", "7"}

\* a parameter: its local name, the path it is read from on the shape, and sh:optional
Parameter(name, optional) ==
    [localname |-> name, path |-> "ex:" \o name, optional |-> optional]
ParameterPaths == {"ex:" \o n : n \in ParameterNames}

\* parameter lists of a well-formed component: no two parameters share a local name
ParameterLists ==
    {ps \in SeqsUpTo({Parameter(n, o) : n \in ParameterNames, o \in BOOLEAN}, MaxParams) :
        \A i, j \in 1..Len(ps) : i # j => ps[i].localname # ps[j].localname}

InitBind ==
    /\ JsIdle
    /\ ExeIdle
    /\ BoundIdle
    /\ ResolveIdle
    /\ parameters \in ParameterLists
    /\ shape_objects \in [ParameterPaths -> SUBSET ParameterValues]
    /\ bound = Unbound(None)

\* BoundShapeJSValidatorComponent.__init__, which ends with self.bind_params()
BoundShapeJSValidatorComponent_init ==
    /\ ~bound.built /\ bound.raised = None
    /\ bound' \in bind_params(EmptyDict, parameters, shape_objects)
    /\ UNCHANGED <<is_property_shape, jsVars, exeVars, parameters, shape_objects, boundVars, resolveVars>>

NextBind == BoundShapeJSValidatorComponent_init

SpecBind == InitBind /\ [][NextBind]_vars

(***************************************************************************)
(* SpecBound: evaluation of a bound validator component over a focus map.  *)
(***************************************************************************)
Rows ==
    {Row(None, None, "x", None), Row("T", "P", None, None), Row("T", "P", "y", None),
     Row(None, None, None, "failure"), Row(None, None, None, None)}

ResultTables == {NoResults} \cup {ResultTable(rows) : rows \in SeqsUpTo(Rows, MaxRows)}

\* binding maps bind_params produces for parameters among maxLength (optional or not)
\* and lang
BindingMaps ==
    {EmptyDict, DictPut(EmptyDict, "maxLength", "5"), DictPut(EmptyDict, "lang", "en"),
     DictPut(DictPut(EmptyDict, "maxLength", "5"), "lang", "en")}

BoundFocusMaps ==
    {<<>>}
    \cup {<<[f |-> "F", value_nodes |-> vs]>> : vs \in ValueSeqs}
    \cup {<<[f |-> "F", value_nodes |-> vs], [f |-> "G", value_nodes |-> ws]>> :
            vs \in {<<>>, <<"bad">>, <<"bad", "good">>}, ws \in {<<>>, <<"good">>}}

InitBound ==
    /\ is_property_shape \in BOOLEAN
    /\ focus_value_nodes \in BoundFocusMaps
    /\ js_exes = <<>>
    /\ js_ret = [returned |-> FALSE, conformant |-> TRUE, reports |-> <<>>]
    /\ ExeIdle
    /\ parameters = <<>>
    /\ shape_objects = <<>>
    /\ \E m \in BindingMaps : bound = [built |-> TRUE, raised |-> None, param_bind_map |-> m]
    /\ js_results \in [ValueNodes -> ResultTables]
    /\ bound_ret = NotEvaluated
    /\ ResolveIdle

\* BoundShapeJSValidatorComponent.evaluate
BoundShapeJSValidatorComponent_evaluate ==
    /\ bound.built
    /\ ~bound_ret.returned
    /\ bound_ret' \in bound_evaluate(is_property_shape, focus_value_nodes, js_results,
                                     bound.param_bind_map, FALSE, <<>>, <<>>)
    /\ UNCHANGED <<is_property_shape, jsVars, exeVars, bindVars, js_results, resolveVars>>

NextBound == BoundShapeJSValidatorComponent_evaluate

SpecBound == InitBound /\ [][NextBound]_vars

(***************************************************************************)
(* SpecResolve: a constraint component, declared alike in the shapes       *)
(* graphs of ShapesGraphs, resolves validators for shapes.  A shapes graph *)
(* is a mutable rdflib graph: what the validator node declares is read     *)
(* from it at each resolution.                                             *)
(***************************************************************************)
ShapesGraphs == {1, 2}    \* id(shacl_graph.graph)

\* the (sh:message objects, sh:jsFunctionName objects) a validator node can have
ValidatorDeclarations ==
    {[messages |-> {Literal("too long", "xsd:string")},
      fn_names |-> {Literal("fn", "xsd:string")}],
     [messages |-> {},
      fn_names |-> {Literal("fn2", "xsd:string")}],
     [messages |-> {Literal("1", "xsd:integer")},
      fn_names |-> {Literal("fn", "xsd:string")}],
     [messages |-> {Literal("other", "xsd:string")},
      fn_names |-> {}]}

InitResolve ==
    /\ is_property_shape = FALSE
    /\ js_exes = <<>>
    /\ focus_value_nodes = <<>>
    /\ js_ret = [returned |-> FALSE, conformant |-> TRUE, reports |-> <<>>]
    /\ ExeIdle
    /\ BoundIdle
    /\ parameters = <<Parameter("maxLength", FALSE)>>
    /\ bound = Unbound(None)
    \* any component on shapes that carry the parameter, or the component with all three
    \* kinds of validator on shapes that lack the mandatory parameter
    /\ \/ /\ shape_objects = [p \in {"ex:maxLength"} |-> {"5"}]
          /\ validators \in SUBSET {Node("VG")}
          /\ node_validators \in SUBSET {Node("VN")}
          /\ property_validators \in {{}, {Node("VP"), Node("VP2")}}
       \/ /\ shape_objects = [p \in {"ex:maxLength"} |-> {}]
          /\ validators = {Node("VG")}
          /\ node_validators = {Node("VN")}
          /\ property_validators = {Node("VP"), Node("VP2")}
    /\ validator_cache = <<>>
    /\ instances = <<>>
    /\ resolved = NotResolved

\* JSConstraintComponent.make_validator_for_shape(shape) on the component of shapes
\* graph g, for a property shape or a node shape
make_validator_for_shape(g, isprop, decl) ==
    /\ is_property_shape' = isprop
    /\ \E sel \in select_validator(isprop, validators, node_validators, property_validators) :
          IF sel.raised # None
          THEN /\ resolved' = Resolved(g, sel.raised, CannotSelect, NoNode, 0, FALSE, EmptyDict)
               /\ UNCHANGED <<validator_cache, instances>>
          ELSE LET new == validator_new(validator_cache, instances,
                                        cache_key(g, sel.validator_node))
                   init == validator_init(new.objs[new.self], decl.messages, decl.fn_names)
               IN /\ new.found_in_cache \/ Cardinality(DOMAIN instances) < MaxInstances
                  /\ validator_cache' = new.cache
                  /\ instances' = [new.objs EXCEPT ![new.self] = init.obj]
                  /\ IF init.raised # None
                     THEN resolved' = Resolved(g, init.raised, init.message,
                                               sel.validator_node, 0,
                                               new.found_in_cache, EmptyDict)
                     ELSE \E b \in bind_params(EmptyDict, parameters, shape_objects) :
                             resolved' = Resolved(g, b.raised, None, sel.validator_node,
                                                  IF b.raised = None THEN new.self ELSE 0,
                                                  new.found_in_cache, b.param_bind_map)
    /\ UNCHANGED <<jsVars, exeVars, bindVars, boundVars, componentVars>>

NextResolve ==
    \E g \in ShapesGraphs, isprop \in BOOLEAN, decl \in ValidatorDeclarations :
        make_validator_for_shape(g, isprop, decl)

SpecResolve == InitResolve /\ [][NextResolve]_vars

(***************************************************************************)
(* SpecJS: JSConstraint.evaluate.                                          *)
(***************************************************************************)
FocusMaps ==
    {<<>>}
    \cup {<<[f |-> f, value_nodes |-> vs]>> : f \in FocusNodes, vs \in ValueSeqs}
    \cup {<<[f |-> "F", value_nodes |-> vs], [f |-> "G", value_nodes |-> ws]>> :
            vs \in ValueSeqs, ws \in ValueSeqs}

\* one executable called for one pair, with any raw result
OneCall ==
    /\ \E res \in RawResults : js_exes = <<[v \in ValueNodes |-> res]>>
    /\ \E f \in FocusNodes, v \in ValueNodes :
           focus_value_nodes = <<[f |-> f, value_nodes |-> <<v>>]>>

\* up to MaxExes executables over any focus map
ManyCalls ==
    /\ \E n \in 1..MaxExes : js_exes \in [1..n -> [ValueNodes -> FewResults]]
    /\ focus_value_nodes \in FocusMaps

InitJS ==
    /\ is_property_shape \in BOOLEAN
    /\ OneCall \/ ManyCalls
    /\ ExeIdle
    /\ BindIdle
    /\ BoundIdle
    /\ ResolveIdle
    /\ js_ret = [returned |-> FALSE, conformant |-> TRUE, reports |-> <<>>]

\* JSConstraint.evaluate
JSConstraint_evaluate ==
    /\ ~js_ret.returned
    /\ LET r == evaluate_exes(is_property_shape, focus_value_nodes, js_exes)
       IN js_ret' = [returned |-> TRUE, conformant |-> ~r.non_conformant,
                     reports |-> r.reports]
    /\ UNCHANGED <<is_property_shape, js_exes, focus_value_nodes, exeVars, bindVars, boundVars, resolveVars>>

NextJS == JSConstraint_evaluate

SpecJS == InitJS /\ [][NextJS]_vars

(***************************************************************************)
(* Claims about JSConstraint.                                              *)
(***************************************************************************)
\* the failing record of one result that is not a list, as the result table states it
TableRecords(isprop, f, v, r) ==
    CASE r.kind = "bool" -> IF r.b THEN <<>> ELSE <<make_v_result(f, v, None, <<>>)>>
      [] r.kind = "str" -> <<make_v_result(f, v, None, <<r.s>>)>>
      [] r.kind = "dict" ->
            <<[focus |-> f,
               value_node |-> IF r.value # None THEN r.value ELSE v,
               result_path |-> IF isprop THEN None ELSE r.path,
               extra_messages |-> IF r.message # None THEN <<r.message>> ELSE <<>>]>>
      [] OTHER -> <<>>

RECURSIVE Flatten(_)
Flatten(ss) == IF ss = <<>> THEN <<>> ELSE Head(ss) \o Flatten(Tail(ss))

\* the failing records of any result: a list gives those of its elements, each on its own
ClaimRecords(isprop, f, v, res) ==
    IF res.kind = "list"
    THEN Flatten([i \in 1..Len(res.items) |-> TableRecords(isprop, f, v, res.items[i])])
    ELSE TableRecords(isprop, f, v, res)

\* the records the claim expects of a whole evaluation, in call order
ExpectedReports ==
    LET pairs == pairs_of(focus_value_nodes)
    IN Flatten([e \in 1..Len(js_exes) |->
           Flatten([i \in 1..Len(pairs) |->
               ClaimRecords(is_property_shape, pairs[i].f, pairs[i].v,
                            js_exes[e][pairs[i].v])])])

FalseTrueM == RList(<<RBool(FALSE), RBool(TRUE), RStr("m")>>)

\* C1: every raw result of every (focus, value) pair is turned into the failing records
\* of the result table: false gives one record on the original value node, true none, a
\* string one record with the string as message, a record one record with its value,
\* message and (node shapes only) path, a list the records of its non-passing elements,
\* anything else none; [false, true, "m"] gives exactly two records.
C1_ResultInterpretation ==
    js_ret.returned =>
        /\ js_ret.reports = ExpectedReports
        /\ (Len(js_exes) = 1 /\ Len(pairs_of(focus_value_nodes)) = 1
              /\ js_exes[1]["bad"] = FalseTrueM /\ js_exes[1]["good"] = FalseTrueM)
           => Len(js_ret.reports) = 2

C1_Witness ==
    /\ js_ret.returned
    /\ Len(js_exes) = 1
    /\ js_exes[1]["bad"] = FalseTrueM
    /\ focus_value_nodes = <<[f |-> "F", value_nodes |-> <<"bad">>]>>
    /\ Len(js_ret.reports) = 2
    /\ js_ret.reports[2].extra_messages = <<"m">>

\* an element that fails: false, a string or a record
FailingElement(r) == (r.kind = "bool" /\ ~r.b) \/ r.kind \in {"str", "dict"}

FailingResult(res) ==
    IF res.kind = "list"
    THEN \E i \in 1..Len(res.items) : FailingElement(res.items[i])
    ELSE FailingElement(res)

SomeFailure ==
    \E e \in 1..Len(js_exes) : \E i \in 1..Len(pairs_of(focus_value_nodes)) :
        FailingResult(js_exes[e][pairs_of(focus_value_nodes)[i].v])

\* C2: evaluate returns conformant = false exactly when some executable produced a failing
\* element for some (focus, value) pair, that is exactly when the report list is non-empty;
\* a passing element, alone or inside a list, never makes the shape non-conformant.
C2_ConformantIffNoFailure ==
    js_ret.returned =>
        /\ (~js_ret.conformant) <=> SomeFailure
        /\ (~js_ret.conformant) <=> (js_ret.reports # <<>>)

(***************************************************************************)
(* Claims about JSExecutable.                                              *)
(***************************************************************************)
Range(seq) == {seq[i] : i \in 1..Len(seq)}

\* the library objects declared on the source node, and by those that are nodes
DirectLibraries == Range(jsLibrary["S"])
NestedLibraries == UNION {Range(jsLibrary[str(d)]) : d \in {x \in DirectLibraries : ~isLiteral(x)}}
DeclaredLibraries == DirectLibraries \cup NestedLibraries

\* every sh:jsLibrary object in the graph is a node and every sh:jsLibraryURL object a Literal
LibrariesWellFormed ==
    /\ \A n \in DOMAIN jsLibrary : \A t \in Range(jsLibrary[n]) : ~isLiteral(t)
    /\ \A n \in DOMAIN jsLibraryURL : \A u \in Range(jsLibraryURL[n]) : isLiteral(u)

\* C6: with valid library declarations, construction fails with ConstraintLoadError unless
\* the node has exactly one function-name object and that object is a string-typed literal;
\* with exactly one string literal it succeeds and fn_name is that string.
C6_FunctionName ==
    (executable.built /\ LibrariesWellFormed) =>
        LET one_string == /\ Cardinality(fn_names) = 1
                          /\ \A t \in fn_names : isLiteral(t) /\ t.dt = "xsd:string"
        IN /\ (executable.exe.raised = None) <=> one_string
           /\ (executable.exe.raised # None) => executable.exe.raised = ConstraintLoadError
           /\ one_string => \A t \in fn_names : executable.exe.fn_name = str(t)

\* C7: with well-formed library declarations, whatever the enumeration order, a constructed
\* JSExecutable has collected exactly the libraries declared directly on the source node
\* and those declared by these direct libraries; each library node is visited at most once
\* and its URLs are stored once, in declaration order.
C7_LibrariesCollected ==
    (executable.built /\ LibrariesWellFormed /\ executable.exe.raised = None) =>
        LET seen == executable.exe.seen_library_defs
            libs == executable.exe.libraries
        IN /\ Range(seen) = DeclaredLibraries
           /\ \A i, j \in 1..Len(seen) : i # j => seen[i] # seen[j]
           /\ {l.node : l \in Range(libs)} =
                  {str(d) : d \in {x \in DeclaredLibraries : jsLibraryURL[str(x)] # <<>>}}
           /\ \A i, j \in 1..Len(libs) : i # j => libs[i].node # libs[j].node
           /\ \A l \in Range(libs) :
                  l.urls = [i \in 1..Len(jsLibraryURL[l.node]) |-> str(jsLibraryURL[l.node][i])]

\* C10: construction fails with ConstraintLoadError whenever a library declared directly on
\* the source node or by one of its direct libraries is a Literal, and whenever a URL object
\* of such a library is not a Literal, whatever the enumeration order.
C10_IllFormedLibraryFails ==
    (/\ executable.built
     /\ \/ \E d \in DeclaredLibraries : isLiteral(d)
        \/ \E d \in DeclaredLibraries :
              ~isLiteral(d) /\ \E u \in Range(jsLibraryURL[str(d)]) : ~isLiteral(u))
    => executable.exe.raised = ConstraintLoadError

(***************************************************************************)
(* Claims about bind_params.                                               *)
(***************************************************************************)
BindReturned == bound.built \/ bound.raised # None

\* C5: bind_params raises ReportableRuntimeError if a declared parameter has a reserved
\* local name (with or without a value on the shape) or if a mandatory parameter has no
\* value on the shape; otherwise it succeeds with a map that has no reserved key, omits
\* every optional parameter without a value and binds every other parameter's local name
\* to one of the values the shape has for that parameter's path.
C5_BindParams ==
    BindReturned =>
        LET P == Range(parameters)
            reserved == \E p \in P : p.localname \in invalid_parameter_names
            missing == \E p \in P : ~p.optional /\ shape_objects[p.path] = {}
            m == bound.param_bind_map
        IN /\ (bound.raised = ReportableRuntimeError) <=> (reserved \/ missing)
           /\ (bound.raised = None) <=> ~(reserved \/ missing)
           /\ bound.raised = None =>
                 /\ DOMAIN m \cap invalid_parameter_names = {}
                 /\ DOMAIN m \subseteq {p.localname : p \in P}
                 /\ \A p \in P :
                       IF shape_objects[p.path] = {}
                       THEN p.localname \notin DOMAIN m
                       ELSE /\ p.localname \in DOMAIN m
                            /\ m[p.localname] \in shape_objects[p.path]

\* a reserved optional parameter without a value made the binding fail
C5_Witness ==
    /\ bound.raised = ReportableRuntimeError
    /\ parameters = <<Parameter("maxLength", FALSE), Parameter("value", TRUE)>>
    /\ shape_objects["ex:maxLength"] = {"5", "7"}
    /\ shape_objects["ex:value"] = {}

(***************************************************************************)
(* Claims about the bound validator.                                       *)
(***************************************************************************)
\* the report the claim gives for violation v of focus f
ClaimReport(isprop, f, v) ==
    LET default == IF isprop THEN None ELSE f
    IN CASE v.kind = "True" ->
               [focus |-> f, value_node |-> default, result_path |-> None,
                extra_messages |-> None]
         [] v.kind = "tuple" ->
               [focus |-> IF v.t # None THEN v.t ELSE f,
                value_node |-> IF v.v # None THEN v.v ELSE default,
                result_path |-> v.p, extra_messages |-> None]
         [] OTHER ->
               [focus |-> f, value_node |-> v, result_path |-> None,
                extra_messages |-> None]

RECURSIVE Sum(_)
Sum(ns) == IF ns = <<>> THEN 0 ELSE Head(ns) + Sum(Tail(ns))

\* the argument convention of validate is met: maxLength is bound
MaxLengthBound == "maxLength" \in DOMAIN bound.param_bind_map

\* C8: for every focus map, also with focus nodes that have no value node, evaluate calls
\* the validator once per focus node and returns (conformant, reports) with exactly one
\* report per returned violation, conformant being false exactly when some violation was
\* returned; each report is on the focus (or the violation's target) with the violation's
\* path and value, the value defaulting to the focus for a node shape and to none for a
\* property shape.
C8_BoundEvaluate ==
    (bound_ret.returned /\ MaxLengthBound) =>
        LET n == Len(focus_value_nodes)
            val == bound_ret.validated
        IN /\ bound_ret.raised = None
           /\ Len(val) = n
           /\ bound_ret.conformant <=> \A i \in 1..n : val[i].violations = {}
           /\ Len(bound_ret.reports) =
                  Sum([i \in 1..n |-> Cardinality(val[i].violations)])
           /\ Range(bound_ret.reports) =
                  UNION {{ClaimReport(is_property_shape, focus_value_nodes[i].f, v) :
                             v \in val[i].violations} : i \in 1..n}

\* the violation of one row as the claim states it
ClaimRowViolations(r) ==
    IF r.this # None \/ r.path # None \/ r.value # None
    THEN {ViolationTuple(r.this, r.path, r.value)}
    ELSE IF r.failure # None THEN {ViolationTrue} ELSE {}

ClaimTableViolations(res) ==
    IF res.absent THEN {}
    ELSE UNION {ClaimRowViolations(res.bindings[i]) : i \in 1..Len(res.bindings)}

\* C9: validate executes the executable once for each value node and returns a violation
\* set that accumulates the rows of every value node's result table; a value node whose
\* table is empty or absent contributes nothing, and takes nothing away from the others.
C9_ValidateAccumulates ==
    (bound_ret.returned /\ MaxLengthBound) =>
        \A i \in 1..Len(bound_ret.validated) :
            LET vs == focus_value_nodes[i].value_nodes
                d == bound_ret.validated[i]
            IN /\ d.raised = None
               /\ Len(d.calls) = Len(vs)
               /\ \A j \in 1..Len(vs) : d.calls[j][1] = vs[j]
               /\ d.violations = UNION {ClaimTableViolations(js_results[vs[j]]) : j \in 1..Len(vs)}

\* the positional arguments the claim gives for value node v under binding map m, the
\* names of m taken in the order names
ClaimArgs(v, m, names) == <<v>> \o [k \in 1..Len(names) |-> m[names[k]]]

\* C11: for every binding map bind_params can produce, whatever its parameters are named
\* and also when an absent optional parameter is missing from it, validate invokes the
\* executable with the value node first, followed by the values of the bound parameters of
\* that map in a fixed order; no call fails because one particular name is not bound.
C11_ArgumentsFromBindingMap ==
    bound_ret.returned =>
        \A i \in 1..Len(bound_ret.validated) :
            LET vs == focus_value_nodes[i].value_nodes
                d == bound_ret.validated[i]
                m == bound.param_bind_map
            IN vs # <<>> =>
                  /\ d.raised = None
                  /\ d.calls # <<>>
                  /\ \E names \in Orders(DOMAIN m) :
                        d.calls[1] = ClaimArgs(vs[1], m, names)

ResolvedInstance == validator_cache[cache_key(resolved.graph, resolved.validator_node)]

\* the cache, as every state has it: a resolution that selected a node left that node's
\* key in the cache and returned the cached instance; different keys hold different
\* instances
CacheConsistent ==
    /\ (resolved.called /\ resolved.validator_node # NoNode) =>
          /\ cache_key(resolved.graph, resolved.validator_node) \in DOMAIN validator_cache
          /\ resolved.raised = None => resolved.validator = ResolvedInstance
    /\ \A k1, k2 \in DOMAIN validator_cache :
          k1 # k2 => validator_cache[k1] # validator_cache[k2]

\* no step evicts or replaces a cache entry
CacheKept ==
    \A k \in DOMAIN validator_cache :
        k \in DOMAIN validator_cache' /\ validator_cache'[k] = validator_cache[k]

====
